---- MODULE Spec2Model ----
(***************************************************************************)
(* State-machine model of src/js/app.js: the retry/timeout executor        *)
(* (withRetry), the localStorage mirror, the auth-state listener, the      *)
(* router and the note handlers (list, register, edit, delete, miss mark). *)
(* Every handler is a function from the program state (a record of all     *)
(* globals, the DOM parts that matter, the remote store and the pending    *)
(* promises) to the next state; an action applies one handler or one       *)
(* promise settlement.                                                     *)
(***************************************************************************)
EXTENDS Integers, Sequences, FiniteSets, TLC

VARIABLES
    currentUser,       \* let currentUser (uid, or NoUser for null)
    notesData,         \* let notesData (array of notes)
    currentPage,       \* let currentPage
    isModalOpen,       \* let isModalOpen
    retryBlocked,      \* let retryBlocked (the circuit-breaker flag)
    usedProblemIds,    \* let usedProblemIds
    currentProblemId,  \* let currentProblemId (0 for null)
    missMarkUsed,      \* let missMarkUsed
    rendered,          \* what pageContent.innerHTML shows
    loading,           \* loadingOverlay is visible
    modalContent,      \* modalContent: which form, and the note its listeners closed over
    problemNote,       \* the note closed over by the random page's listeners
    missBtnDisabled,   \* #miss-mark-btn.disabled of the button in pageContent
    keydown,           \* the keydown listeners added to modalContent, oldest first
    storage,           \* localStorage[STORAGE_KEY]
    firestore,         \* the remote 'notes' collection
    nextDocId,         \* next id the remote store generates
    calls,             \* withRetry invocations awaiting fetchWithTimeout
    orphans,           \* operations still running after their timeout fired
    steps,             \* steps taken so far
    budget,            \* steps the run may take
    saved,             \* history: what saveToLocalStorage last wrote, while it is stored
    applied,           \* history: per note id, the miss marks whose updateDoc
                       \* resolved and that handleMissMark wrote to notesData
    lastCreated,       \* history: the note the latest create appended and the
                       \* remote store then, while notesData is as that
                       \* create left it
    last               \* history: what the last step did

vars == <<currentUser, notesData, currentPage, isModalOpen, retryBlocked,
          usedProblemIds, currentProblemId, missMarkUsed, rendered, loading,
          modalContent, problemNote, missBtnDisabled, keydown, storage,
          firestore, nextDocId, calls, orphans, steps, budget, saved, applied,
          lastCreated, last>>

----------------------------------------------------------------------------
(* Program constants *)
MAX_RETRY == 3
TITLE_MAX_LENGTH == 50
CONTENT_MAX_LENGTH == 999

(* Bounds of the model *)
MaxCalls == 2      \* withRetry invocations pending at once
MaxDocs == 3       \* largest id the remote store hands out
MaxOrphans == 1    \* timed-out operations that may still complete
MaxMiss == 2       \* largest MissCount a miss mark is started from
MaxSteps == 7      \* steps of one run
MaxFairSteps == 3  \* steps of one run before only timers fire
MaxDrillSteps == 10  \* steps of one run on the random page
MaxModalSteps == 6   \* steps of one run with the modals
MaxCycleSteps == 7   \* steps of one run through the random drill

Users == {"u1"}
NoUser == "null"
Pages == {"login", "list", "random"}

----------------------------------------------------------------------------
(* Strings are sequences of one-character strings. *)
Blank == " "
Str(n) == [i \in 1..n |-> "x"]
TitleA == <<"A">>
TitleB == <<"B">>
TextQ == <<"q">>
TextA == <<"a">>

RECURSIVE TrimStart(_)
TrimStart(s) == IF s # <<>> /\ Head(s) = Blank THEN TrimStart(Tail(s)) ELSE s

RECURSIVE TrimEnd(_)
TrimEnd(s) ==
    IF s # <<>> /\ s[Len(s)] = Blank THEN TrimEnd(SubSeq(s, 1, Len(s) - 1)) ELSE s

\* String.prototype.trim
trim(s) == TrimEnd(TrimStart(s))

----------------------------------------------------------------------------
(* Notes *)
Note(id, title, question, answer, explain, date, miss, uid) ==
    [id |-> id, Title |-> title, Question |-> question, Answer |-> answer,
     Explain |-> explain, Date |-> date, MissCount |-> miss, uid |-> uid]

NoNote == Note(0, <<>>, <<>>, <<>>, <<>>, 0, 0, NoUser)

Range(s) == {s[i] : i \in 1..Len(s)}

\* notesData.findIndex(n => n.id === id), 0 for -1
findIndex(notes, id) ==
    IF \E i \in 1..Len(notes) : notes[i].id = id
    THEN CHOOSE i \in 1..Len(notes) :
            notes[i].id = id /\ \A j \in 1..(i - 1) : notes[j].id # id
    ELSE 0

\* notesData.filter(n => n.id !== id)
RECURSIVE filterOut(_, _)
filterOut(notes, id) ==
    IF notes = <<>> THEN <<>>
    ELSE IF Head(notes).id = id THEN filterOut(Tail(notes), id)
    ELSE <<Head(notes)>> \o filterOut(Tail(notes), id)

----------------------------------------------------------------------------
(* localStorage: absent, a JSON text written by saveToLocalStorage, or a   *)
(* text JSON.parse rejects.  A JSON text is the list of the notes' fields. *)
Absent == [kind |-> "absent", text |-> <<>>]
Corrupt == [kind |-> "corrupt", text |-> <<>>]

\* JSON.stringify of one note
stringifyNote(n) ==
    <<n.id, n.Title, n.Question, n.Answer, n.Explain, n.Date, n.MissCount, n.uid>>

\* JSON.parse of one note
parseNote(t) == Note(t[1], t[2], t[3], t[4], t[5], t[6], t[7], t[8])

JSONstringify(notes) == [i \in 1..Len(notes) |-> stringifyNote(notes[i])]
JSONparse(text) == [i \in 1..Len(text) |-> parseNote(text[i])]

----------------------------------------------------------------------------
(* The program state as one record, so that handlers compose as functions. *)
St ==
    [currentUser |-> currentUser, notesData |-> notesData,
     currentPage |-> currentPage, isModalOpen |-> isModalOpen,
     retryBlocked |-> retryBlocked, usedProblemIds |-> usedProblemIds,
     currentProblemId |-> currentProblemId, missMarkUsed |-> missMarkUsed,
     rendered |-> rendered, loading |-> loading, modalContent |-> modalContent,
     problemNote |-> problemNote, missBtnDisabled |-> missBtnDisabled,
     keydown |-> keydown,
     storage |-> storage, firestore |-> firestore, nextDocId |-> nextDocId,
     calls |-> calls, orphans |-> orphans,
     steps |-> steps, budget |-> budget, saved |-> saved, applied |-> applied,
     lastCreated |-> lastCreated,
     last |-> last]

NoCreated ==
    [Title |-> <<>>, uid |-> NoUser, before |-> 0, id |-> 0, docs |-> {}]

Becomes(st) ==
    /\ currentUser' = st.currentUser
    /\ notesData' = st.notesData
    /\ currentPage' = st.currentPage
    /\ isModalOpen' = st.isModalOpen
    /\ retryBlocked' = st.retryBlocked
    /\ usedProblemIds' = st.usedProblemIds
    /\ currentProblemId' = st.currentProblemId
    /\ missMarkUsed' = st.missMarkUsed
    /\ rendered' = st.rendered
    /\ loading' = st.loading
    /\ modalContent' = st.modalContent
    /\ problemNote' = st.problemNote
    /\ missBtnDisabled' = st.missBtnDisabled
    /\ keydown' = st.keydown
    /\ storage' = st.storage
    /\ firestore' = st.firestore
    /\ nextDocId' = st.nextDocId
    /\ calls' = st.calls
    /\ orphans' = st.orphans
    /\ steps' = st.steps
    /\ budget' = st.budget
    /\ saved' = st.saved
    /\ applied' = st.applied
    /\ lastCreated' = IF st.notesData # notesData /\ st.lastCreated = lastCreated
                      THEN NoCreated
                      ELSE st.lastCreated
    /\ last' = st.last

(* A withRetry invocation: the operation it wraps (kind, arg), its          *)
(* retryCount, and its history: operation() calls, E010 notifications,     *)
(* attempts whose timer fired, retryBlocked when the caller invoked it.    *)
Arg(uid, id, note, miss, btn) ==
    [uid |-> uid, id |-> id, note |-> note, miss |-> miss, btn |-> btn]
NoArg == Arg(NoUser, 0, NoNote, 0, FALSE)

NewCall(kind, arg) ==
    [kind |-> kind, arg |-> arg, retryCount |-> 0,
     invoked |-> 0, retrying |-> 0, timeouts |-> 0, entryBlocked |-> FALSE]
NoCall == NewCall("none", NoArg)
NoDone == [call |-> NoCall, outcome |-> "none"]

NoModal == [kind |-> "none", id |-> 0, Title |-> <<>>]
NoProblem == [id |-> 0, MissCount |-> 0]

\* History of one step: its action, the codes showError displayed, the
\* withRetry invocation that settled and how, the operation() calls made,
\* the user the onAuthStateChanged callback received, retryBlocked before
\* it, the fields handleRegister or handleEdit read from the form, the
\* confirmation title handleDelete read, the runs of the submit handler the
\* event started.
NoLast ==
    [act |-> "init", shown |-> {}, done |-> NoDone, invoked |-> 0,
     started |-> 0,
     authEvent |-> "none", prevBlocked |-> FALSE,
     submitted |-> [title |-> <<>>, question |-> <<>>, answer |-> <<>>,
                    explain |-> <<>>],
     confirm |-> <<>>]

NoSaved == [valid |-> FALSE, notes |-> <<>>]

\* The start of a step.
Begin(name) ==
    [St EXCEPT !.last = [NoLast EXCEPT !.act = name, !.prevBlocked = retryBlocked],
               !.steps = @ + 1]

\* The start of a step taken by the user or the environment.
Event(name) == Begin(name)

\* The promise of call c settled in this step (outcome "ok", or what was thrown).
settled(st, c, outcome) ==
    [st EXCEPT !.last.done = [call |-> c, outcome |-> outcome]]

----------------------------------------------------------------------------
(* Utilities *)
showError(st, code) == [st EXCEPT !.last.shown = @ \cup {code}]
showLoading(st) == [st EXCEPT !.loading = TRUE]
hideLoading(st) == [st EXCEPT !.loading = FALSE]

saveToLocalStorage(st) ==
    [st EXCEPT !.storage = [kind |-> "json", text |-> JSONstringify(st.notesData)],
               !.saved = [valid |-> TRUE, notes |-> st.notesData]]

\* getFromLocalStorage throws (JSON.parse) on a corrupt value
getFromLocalStorageThrows(st) == st.storage.kind = "corrupt"
getFromLocalStorage(st) ==
    IF st.storage.kind = "json" THEN JSONparse(st.storage.text) ELSE <<>>

clearLocalStorage(st) == [st EXCEPT !.storage = Absent, !.saved = NoSaved]

\* closeModal(true); closeModal() when the user confirms discarding changes
closeModal(st) ==
    IF ~st.isModalOpen THEN st
    ELSE [st EXCEPT !.isModalOpen = FALSE, !.modalContent = NoModal]

openModal(st, content) ==
    IF st.isModalOpen THEN st
    ELSE [st EXCEPT !.isModalOpen = TRUE, !.modalContent = content]

\* pageContent.innerHTML = ...: the page's buttons, the miss-mark button among
\* them, are new elements; listeners of the old ones are gone with them.
setPageContent(st, page) ==
    [st EXCEPT !.rendered = page,
               !.missBtnDisabled = FALSE,
               !.problemNote = NoProblem,
               !.calls = [i \in 1..Len(st.calls) |->
                            [st.calls[i] EXCEPT !.arg.btn = FALSE]]]

\* withRetry without its check of retryBlocked
withRetry_unguarded(st, c) ==
    LET c1 == IF c.retryCount = 0 THEN [c EXCEPT !.entryBlocked = st.retryBlocked]
              ELSE c
    IN  [st |-> [st EXCEPT !.last.invoked = @ + 1],
         call |-> [c1 EXCEPT !.invoked = @ + 1], thrown |-> "none"]

----------------------------------------------------------------------------
(* withRetry (fetchWithTimeout is the race the actions OpSucceed, OpFail   *)
(* and Timeout decide).  The result says where the invocation stands:      *)
(* thrown = "none" when operation() was called and the race is pending.    *)
withRetry(st, c) ==
    LET c1 == IF c.retryCount = 0 THEN [c EXCEPT !.entryBlocked = st.retryBlocked]
              ELSE c
    IN  IF st.retryBlocked
        THEN [st |-> showError(st, "E011"), call |-> c1, thrown |-> "blocked"]
        ELSE [st |-> [st EXCEPT !.last.invoked = @ + 1],
              call |-> [c1 EXCEPT !.invoked = @ + 1], thrown |-> "none"]

\* withRetry's catch retrying while retryCount < MAX_RETRY
withRetry_catch_extra(st, c, error) ==
    IF error = "timeout" /\ c.retryCount < MAX_RETRY
    THEN withRetry(showLoading(showError(st, "E010")),
                   [c EXCEPT !.retrying = @ + 1, !.retryCount = @ + 1])
    ELSE IF c.retryCount >= MAX_RETRY - 1
    THEN [st |-> showError([st EXCEPT !.retryBlocked = TRUE], "E011"),
          call |-> c, thrown |-> error]
    ELSE [st |-> st, call |-> c, thrown |-> error]

\* withRetry's catch retrying after any error
withRetry_catch_any(st, c, error) ==
    IF c.retryCount < MAX_RETRY - 1
    THEN withRetry(showLoading(showError(st, "E010")),
                   [c EXCEPT !.retrying = @ + 1, !.retryCount = @ + 1])
    ELSE IF c.retryCount >= MAX_RETRY - 1
    THEN [st |-> showError([st EXCEPT !.retryBlocked = TRUE], "E011"),
          call |-> c, thrown |-> error]
    ELSE [st |-> st, call |-> c, thrown |-> error]

\* the catch block of withRetry, error being "timeout" or "failure"
withRetry_catch(st, c, error) ==
    IF error = "timeout" /\ c.retryCount < MAX_RETRY - 1
    THEN withRetry(showLoading(showError(st, "E010")),
                   [c EXCEPT !.retrying = @ + 1, !.retryCount = @ + 1])
    ELSE IF c.retryCount >= MAX_RETRY - 1
    THEN [st |-> showError([st EXCEPT !.retryBlocked = TRUE], "E011"),
          call |-> c, thrown |-> error]
    ELSE [st |-> st, call |-> c, thrown |-> error]

\* await: the invocation joins the pending ones
await(st, c) == [st EXCEPT !.calls = Append(@, c)]

----------------------------------------------------------------------------
(* Pages *)
renderLoginPage(st) == setPageContent(st, "login")

\* renderListContent: the table of notesData and the list page's buttons
renderListContent(st) == setPageContent(st, "list")

\* renderListPage's catch keeping notesData as it is
renderListPage_catch_keeps(st) ==
    IF getFromLocalStorageThrows(st) THEN st
    ELSE renderListContent(hideLoading(st))

\* the catch block of renderListPage and what follows it; JSON.parse throwing
\* inside the catch block rejects renderListPage there
renderListPage_catch(st) ==
    IF getFromLocalStorageThrows(st) THEN st
    ELSE renderListContent(hideLoading(
            [st EXCEPT !.notesData = getFromLocalStorage(st)]))

\* loadNotesFromFirestore up to its await (currentUser is not null)
loadNotesFromFirestore(st) ==
    withRetry(st, NewCall("list", Arg(st.currentUser, 0, NoNote, 0, FALSE)))

\* loadNotesFromFirestore after its await: docs is snapshot.docs mapped
\* loadNotesFromFirestore without its saveToLocalStorage
loadNotesFromFirestore_then_unsaved(st, docs) ==
    [st EXCEPT !.notesData = docs]

loadNotesFromFirestore_then(st, docs) ==
    saveToLocalStorage([st EXCEPT !.notesData = docs])

renderListPage_then(st, docs) ==
    renderListContent(hideLoading(loadNotesFromFirestore_then(st, docs)))

renderListPage(st) ==
    LET s1 == showLoading(st)
        r == loadNotesFromFirestore(s1)
    IN  IF s1.currentUser = NoUser    \* currentUser.uid throws a TypeError
        THEN renderListPage_catch(settled(s1, NewCall("list", NoArg), "typeerror"))
        ELSE IF r.thrown = "none" THEN await(r.st, r.call)
        ELSE renderListPage_catch(settled(r.st, r.call, r.thrown))

\* What Math.random may select in renderRandomPage: 0 when nothing is selected.
availableIds(st) ==
    {st.notesData[i].id : i \in 1..Len(st.notesData)} \ st.usedProblemIds

\* the loop ending with any unused note, the displayed one included
RandomPick_repeats(st) ==
    IF availableIds(st) = {} THEN {0} ELSE availableIds(st)

\* the ids the do-while loop can end with: with several unused notes it runs
\* until Math.random picks one that is not currentProblemId
RandomPick(st) ==
    IF availableIds(st) = {} THEN {0}
    ELSE IF Cardinality(availableIds(st)) = 1 THEN availableIds(st)
    ELSE availableIds(st) \ {st.currentProblemId}

renderProblemContent(st, note) ==
    [setPageContent(st, "problem") EXCEPT
        !.problemNote = [id |-> note.id, MissCount |-> note.MissCount]]

\* r is the id of the note the do-while loop ends with
renderRandomPage(st, r) ==
    IF Len(st.notesData) = 0 THEN setPageContent(st, "random_empty")
    ELSE IF availableIds(st) = {}
    THEN setPageContent([st EXCEPT !.usedProblemIds = {}], "random_complete")
    ELSE renderProblemContent(
            [st EXCEPT !.currentProblemId = r,
                       !.usedProblemIds = @ \cup {r},
                       !.missMarkUsed = FALSE],
            st.notesData[findIndex(st.notesData, r)])

----------------------------------------------------------------------------
(* Routing *)
RECURSIVE renderPage(_, _)

navigateTo(st, page, r) ==
    renderPage([st EXCEPT !.currentPage = page], r)

renderPage(st, r) ==
    LET s1 == closeModal(st)
    IN  IF s1.currentUser = NoUser /\ s1.currentPage # "login"
        THEN navigateTo(s1, "login", r)
        ELSE CASE s1.currentPage = "login" -> renderLoginPage(s1)
               [] s1.currentPage = "list" -> renderListPage(s1)
               [] s1.currentPage = "random" -> renderRandomPage(s1, r)
               [] OTHER -> navigateTo(s1, "login", r)

\* the popstate listener of initRouter
popstate(st, page, r) == renderPage([st EXCEPT !.currentPage = page], r)

----------------------------------------------------------------------------
(* Authentication *)

\* the callback leaving retryBlocked as it is
onAuthStateChanged_keepsFlag(st, user, r) ==
    LET s1 == hideLoading([st EXCEPT !.last.authEvent = user])
    IN  IF user # NoUser
        THEN LET s2 == [s1 EXCEPT !.currentUser = user]
             IN  IF s2.currentPage = "login" THEN navigateTo(s2, "list", r)
                 ELSE renderPage(s2, r)
        ELSE navigateTo(clearLocalStorage([s1 EXCEPT !.currentUser = NoUser]),
                        "login", r)

\* the callback clearing retryBlocked whatever it receives
onAuthStateChanged_clearsAlways(st, user, r) ==
    LET s1 == hideLoading([st EXCEPT !.last.authEvent = user,
                                     !.retryBlocked = FALSE])
    IN  IF user # NoUser
        THEN LET s2 == [s1 EXCEPT !.currentUser = user]
             IN  IF s2.currentPage = "login" THEN navigateTo(s2, "list", r)
                 ELSE renderPage(s2, r)
        ELSE navigateTo(clearLocalStorage([s1 EXCEPT !.currentUser = NoUser]),
                        "login", r)

\* the onAuthStateChanged callback
onAuthStateChanged(st, user, r) ==
    LET s1 == hideLoading([st EXCEPT !.last.authEvent = user])
    IN  IF user # NoUser
        THEN LET s2 == [s1 EXCEPT !.currentUser = user, !.retryBlocked = FALSE]
             IN  IF s2.currentPage = "login" THEN navigateTo(s2, "list", r)
                 ELSE renderPage(s2, r)
        ELSE navigateTo(clearLocalStorage([s1 EXCEPT !.currentUser = NoUser]),
                        "login", r)

handleGoogleLogin_catch(st) == hideLoading(showError(st, "E001"))

handleGoogleLogin(st) ==
    LET r == withRetry(showLoading(st), NewCall("login", NoArg))
    IN  IF r.thrown = "none" THEN await(r.st, r.call)
        ELSE handleGoogleLogin_catch(settled(r.st, r.call, r.thrown))

handleLogout_catch(st) == hideLoading(showError(st, "E002"))

\* handleLogout after signOut resolved
handleLogout_then(st, r) ==
    navigateTo(hideLoading(
        [clearLocalStorage(st) EXCEPT !.currentUser = NoUser,
                                      !.notesData = <<>>,
                                      !.usedProblemIds = {},
                                      !.currentProblemId = 0]),
        "login", r)

handleLogout(st) ==
    LET r == withRetry(showLoading(st), NewCall("logout", NoArg))
    IN  IF r.thrown = "none" THEN await(r.st, r.call)
        ELSE handleLogout_catch(settled(r.st, r.call, r.thrown))

----------------------------------------------------------------------------
(* Register modal.  A form input is the four raw field values. *)
Input(title, question, answer, explain) ==
    [title |-> title, question |-> question, answer |-> answer, explain |-> explain]

\* modalContent.addEventListener('keydown', ...) of a setup...ModalListeners:
\* modalContent is the same element for every modal, and closeModal empties
\* its innerHTML only, so the listener stays; note is what it closed over
addKeydown(st, kind, note) ==
    [st EXCEPT !.keydown =
        Append(@, [kind |-> kind, id |-> note.id, Title |-> note.Title])]

setupRegisterModalListeners(st) == addKeydown(st, "register", NoModal)

openRegisterModal(st) ==
    setupRegisterModalListeners(
        openModal(st, [kind |-> "register", id |-> 0, Title |-> <<>>]))

\* getCurrentDateTime: the clock is read as the count of ids handed out so far
getCurrentDateTime(st) == st.nextDocId

handleRegister_catch(st) == hideLoading(showError(st, "E004"))

\* handleRegister after addDoc resolved with docRef.id = id
handleRegister_then(st, c, id) ==
    LET newNote == [c.arg.note EXCEPT !.id = id]
        before == Cardinality({i \in 1..Len(st.notesData) :
                                 st.notesData[i].Title = newNote.Title})
    IN  renderListContent(closeModal(hideLoading(saveToLocalStorage(
            [st EXCEPT !.notesData = Append(@, newNote),
                       !.lastCreated = [Title |-> newNote.Title,
                                        uid |-> newNote.uid,
                                        before |-> before,
                                        id |-> id,
                                        docs |-> st.firestore]]))))

\* handleRegister without its check of the titles in notesData
handleRegister_unchecked(st, in) ==
    LET title == trim(in.title)
        question == trim(in.question)
        answer == trim(in.answer)
        explain == trim(in.explain)
    IN  IF title = <<>> \/ question = <<>> \/ answer = <<>>
        THEN showError(st, "E007")
        ELSE IF Len(title) > TITLE_MAX_LENGTH
        THEN showError(st, "E012")
        ELSE IF \/ Len(question) > CONTENT_MAX_LENGTH
                \/ Len(answer) > CONTENT_MAX_LENGTH
                \/ Len(explain) > CONTENT_MAX_LENGTH
        THEN showError(st, "E013")
        ELSE LET s1 == showLoading(st)
                 newNote == Note(0, title, question, answer, explain,
                                 getCurrentDateTime(s1), 0, s1.currentUser)
                 r == withRetry(s1, NewCall("create", Arg(NoUser, 0, newNote, 0, FALSE)))
             IN  IF s1.currentUser = NoUser
                 THEN s1
                 ELSE IF r.thrown = "none" THEN await(r.st, r.call)
                 ELSE handleRegister_catch(settled(r.st, r.call, r.thrown))

handleRegister(st, in) ==
    LET title == trim(in.title)
        question == trim(in.question)
        answer == trim(in.answer)
        explain == trim(in.explain)
    IN  IF title = <<>> \/ question = <<>> \/ answer = <<>>
        THEN showError(st, "E007")
        ELSE IF Len(title) > TITLE_MAX_LENGTH
        THEN showError(st, "E012")
        ELSE IF \/ Len(question) > CONTENT_MAX_LENGTH
                \/ Len(answer) > CONTENT_MAX_LENGTH
                \/ Len(explain) > CONTENT_MAX_LENGTH
        THEN showError(st, "E013")
        ELSE IF \E i \in 1..Len(st.notesData) : st.notesData[i].Title = title
        THEN showError(st, "E008")
        ELSE LET s1 == showLoading(st)
                 newNote == Note(0, title, question, answer, explain,
                                 getCurrentDateTime(s1), 0, s1.currentUser)
                 r == withRetry(s1, NewCall("create", Arg(NoUser, 0, newNote, 0, FALSE)))
             IN  IF s1.currentUser = NoUser   \* currentUser.uid throws, uncaught
                 THEN s1
                 ELSE IF r.thrown = "none" THEN await(r.st, r.call)
                 ELSE handleRegister_catch(settled(r.st, r.call, r.thrown))

----------------------------------------------------------------------------
(* Edit modal: modalContent holds the note the listeners closed over. *)
setupEditModalListeners(st, note) == addKeydown(st, "edit", note)

openEditModal(st, note) ==
    setupEditModalListeners(
        openModal(st, [kind |-> "edit", id |-> note.id, Title |-> note.Title]),
        note)

handleEdit_catch(st) == hideLoading(showError(st, "E005"))

\* handleEdit storing updatedData in place of the note
handleEdit_then_replaces(st, c) ==
    LET index == findIndex(st.notesData, c.arg.id)
        s1 == IF index # 0
              THEN saveToLocalStorage(
                     [st EXCEPT !.notesData[index] =
                         [c.arg.note EXCEPT !.id = c.arg.id]])
              ELSE st
    IN  renderListContent(closeModal(hideLoading(s1)))

\* handleEdit after updateDoc resolved
handleEdit_then(st, c) ==
    LET index == findIndex(st.notesData, c.arg.id)
        s1 == IF index # 0
              THEN saveToLocalStorage(
                     [st EXCEPT !.notesData[index] =
                         [@ EXCEPT !.Title = c.arg.note.Title,
                                   !.Question = c.arg.note.Question,
                                   !.Answer = c.arg.note.Answer,
                                   !.Explain = c.arg.note.Explain]])
              ELSE st
    IN  renderListContent(closeModal(hideLoading(s1)))

\* handleEdit without its check of the other notes' titles
handleEdit_unchecked(st, note, in) ==
    LET title == trim(in.title)
        question == trim(in.question)
        answer == trim(in.answer)
        explain == trim(in.explain)
    IN  IF title = <<>> \/ question = <<>> \/ answer = <<>>
        THEN showError(st, "E007")
        ELSE IF Len(title) > TITLE_MAX_LENGTH
        THEN showError(st, "E012")
        ELSE IF \/ Len(question) > CONTENT_MAX_LENGTH
                \/ Len(answer) > CONTENT_MAX_LENGTH
                \/ Len(explain) > CONTENT_MAX_LENGTH
        THEN showError(st, "E013")
        ELSE LET updatedData == Note(0, title, question, answer, explain, 0, 0, NoUser)
                 r == withRetry(showLoading(st),
                                NewCall("update", Arg(NoUser, note.id, updatedData, 0, FALSE)))
             IN  IF r.thrown = "none" THEN await(r.st, r.call)
                 ELSE handleEdit_catch(settled(r.st, r.call, r.thrown))

\* handleEdit checking the content lengths before the title length
handleEdit_contentFirst(st, note, in) ==
    LET title == trim(in.title)
        question == trim(in.question)
        answer == trim(in.answer)
        explain == trim(in.explain)
    IN  IF title = <<>> \/ question = <<>> \/ answer = <<>>
        THEN showError(st, "E007")
        ELSE IF \/ Len(question) > CONTENT_MAX_LENGTH
                \/ Len(answer) > CONTENT_MAX_LENGTH
                \/ Len(explain) > CONTENT_MAX_LENGTH
        THEN showError(st, "E013")
        ELSE IF Len(title) > TITLE_MAX_LENGTH
        THEN showError(st, "E012")
        ELSE IF \E i \in 1..Len(st.notesData) :
                    st.notesData[i].Title = title /\ st.notesData[i].id # note.id
        THEN showError(st, "E008")
        ELSE LET updatedData == Note(0, title, question, answer, explain, 0, 0, NoUser)
                 r == withRetry(showLoading(st),
                                NewCall("update", Arg(NoUser, note.id, updatedData, 0, FALSE)))
             IN  IF r.thrown = "none" THEN await(r.st, r.call)
                 ELSE handleEdit_catch(settled(r.st, r.call, r.thrown))

handleEdit(st, note, in) ==
    LET title == trim(in.title)
        question == trim(in.question)
        answer == trim(in.answer)
        explain == trim(in.explain)
    IN  IF title = <<>> \/ question = <<>> \/ answer = <<>>
        THEN showError(st, "E007")
        ELSE IF Len(title) > TITLE_MAX_LENGTH
        THEN showError(st, "E012")
        ELSE IF \/ Len(question) > CONTENT_MAX_LENGTH
                \/ Len(answer) > CONTENT_MAX_LENGTH
                \/ Len(explain) > CONTENT_MAX_LENGTH
        THEN showError(st, "E013")
        ELSE IF \E i \in 1..Len(st.notesData) :
                    st.notesData[i].Title = title /\ st.notesData[i].id # note.id
        THEN showError(st, "E008")
        ELSE LET updatedData == Note(0, title, question, answer, explain, 0, 0, NoUser)
                 r == withRetry(showLoading(st),
                                NewCall("update", Arg(NoUser, note.id, updatedData, 0, FALSE)))
             IN  IF r.thrown = "none" THEN await(r.st, r.call)
                 ELSE handleEdit_catch(settled(r.st, r.call, r.thrown))

----------------------------------------------------------------------------
(* Delete modal *)
setupDeleteModalListeners(st, note) == addKeydown(st, "delete", note)

openDeleteModal(st, note) ==
    setupDeleteModalListeners(
        openModal(st, [kind |-> "delete", id |-> note.id, Title |-> note.Title]),
        note)

\* the delete-mode button of the edit modal
deleteMode(st, note) == openDeleteModal(closeModal(st), note)

handleDelete_catch(st) == hideLoading(showError(st, "E006"))

\* handleDelete after deleteDoc resolved
handleDelete_then(st, c) ==
    renderListContent(closeModal(hideLoading(saveToLocalStorage(
        [st EXCEPT !.notesData = filterOut(@, c.arg.id)]))))

\* handleDelete without its comparison of the confirmation title
handleDelete_unconfirmed(st, note, confirm) ==
    LET r == withRetry(showLoading(st),
                       NewCall("delete", Arg(NoUser, note.id, NoNote, 0, FALSE)))
    IN  IF r.thrown = "none" THEN await(r.st, r.call)
        ELSE handleDelete_catch(settled(r.st, r.call, r.thrown))

handleDelete(st, note, confirm) ==
    LET confirmTitle == trim(confirm)
        r == withRetry(showLoading(st),
                       NewCall("delete", Arg(NoUser, note.id, NoNote, 0, FALSE)))
    IN  IF confirmTitle # note.Title THEN showError(st, "E009")
        ELSE IF r.thrown = "none" THEN await(r.st, r.call)
        ELSE handleDelete_catch(settled(r.st, r.call, r.thrown))

\* openDetailModal: shows the note, its close button closes the modal
openDetailModal(st, note) ==
    openModal(st, [kind |-> "detail", id |-> note.id, Title |-> note.Title])

----------------------------------------------------------------------------
(* Submitting the form of the modal that is open *)

\* one run of the submit handler of the open modal; note is what the
\* listener that calls it closed over
submitHandler(st, note, in, confirm) ==
    LET s1 == [st EXCEPT !.last.started = @ + 1]
    IN  CASE st.modalContent.kind = "register" -> handleRegister(s1, in)
          [] st.modalContent.kind = "edit" -> handleEdit(s1, note, in)
          [] st.modalContent.kind = "delete" -> handleDelete(s1, note, confirm)
          [] OTHER -> st

\* the submit button: its onclick was assigned when this modal was opened
clickSubmit(st, in, confirm) == submitHandler(st, st.modalContent, in, confirm)

\* Enter pressed in a field of the form: the event bubbles to modalContent
\* and every keydown listener runs, oldest first, each up to its handler's
\* first await.  A listener set up for another kind of modal calls a
\* handler that throws at once, reading a field the open form does not have.
RECURSIVE dispatchKeydown(_, _, _, _)
dispatchKeydown(st, listeners, in, confirm) ==
    IF listeners = <<>> THEN st
    ELSE LET l == Head(listeners)
             s1 == IF l.kind = st.modalContent.kind
                   THEN submitHandler(st, l, in, confirm)
                   ELSE st
         IN  dispatchKeydown(s1, Tail(listeners), in, confirm)

\* the form is submitted by the Enter key (key) or by the submit button
submit(st, key, in, confirm) ==
    IF key THEN dispatchKeydown(st, st.keydown, in, confirm)
    ELSE clickSubmit(st, in, confirm)

----------------------------------------------------------------------------
(* Miss mark on the random page.  c.arg.btn: the button handleMissMark     *)
(* disabled is still the one in the page.                                  *)
\* handleMissMark's catch leaving missMarkUsed set
handleMissMark_catch_keepsGuard(st, c) ==
    [showError(st, "E005") EXCEPT
        !.missBtnDisabled = IF c.arg.btn THEN FALSE ELSE @]

handleMissMark_catch(st, c) ==
    [showError(st, "E005") EXCEPT
        !.missBtnDisabled = IF c.arg.btn THEN FALSE ELSE @,
        !.missMarkUsed = FALSE]

\* handleMissMark after updateDoc resolved; notesData[index] is the object the
\* page's listeners closed over when they hold a note of that id
handleMissMark_then(st, c) ==
    LET index == findIndex(st.notesData, c.arg.id)
    IN  IF index # 0
        THEN saveToLocalStorage(
               [st EXCEPT !.notesData[index].MissCount = c.arg.miss,
                          !.applied[c.arg.id] = @ + 1,
                          !.problemNote = IF @.id = c.arg.id
                                          THEN [@ EXCEPT !.MissCount = c.arg.miss]
                                          ELSE @])
        ELSE st

handleMissMark(st, note) ==
    IF st.missMarkUsed THEN st
    ELSE LET s1 == [st EXCEPT !.missBtnDisabled = TRUE, !.missMarkUsed = TRUE]
             newMissCount == note.MissCount + 1
             r == withRetry(s1, NewCall("miss", Arg(NoUser, note.id, NoNote,
                                                    newMissCount, TRUE)))
         IN  IF r.thrown = "none" THEN await(r.st, r.call)
             ELSE handleMissMark_catch(settled(r.st, r.call, r.thrown), r.call)

----------------------------------------------------------------------------
(* The remote store (firebase-config.js exports) *)
RECURSIVE SortById(_)
SortById(docs) ==
    IF docs = {} THEN <<>>
    ELSE LET d == CHOOSE x \in docs : \A y \in docs : x.id <= y.id
         IN  <<d>> \o SortById(docs \ {d})

\* getDocs returning the documents of the other users
getDocs_others(st, uid) == SortById({d \in st.firestore : d.uid # uid})

\* getDocs(query(notesRef, where('uid', '==', uid))), each doc as {id, ...data}
getDocs(st, uid) == SortById({d \in st.firestore : d.uid = uid})

\* addDoc: the store generates the id
addDoc(st, note) ==
    [st EXCEPT !.firestore = @ \cup {[note EXCEPT !.id = st.nextDocId]},
               !.nextDocId = @ + 1]

docExists(st, id) == \E d \in st.firestore : d.id = id

\* updateDoc(noteRef, updatedData)
updateDoc(st, id, data) ==
    [st EXCEPT !.firestore =
        {IF d.id = id
         THEN [d EXCEPT !.Title = data.Title, !.Question = data.Question,
                        !.Answer = data.Answer, !.Explain = data.Explain]
         ELSE d : d \in @}]

\* updateDoc(noteRef, { MissCount: n })
updateMissCount(st, id, n) ==
    [st EXCEPT !.firestore =
        {IF d.id = id THEN [d EXCEPT !.MissCount = n] ELSE d : d \in @}]

deleteDoc(st, id) == [st EXCEPT !.firestore = {d \in @ : d.id # id}]

\* The operation of call c can succeed now.
CanSucceed(st, c) ==
    CASE c.kind = "create" -> st.nextDocId <= MaxDocs
      [] c.kind \in {"update", "miss"} -> docExists(st, c.arg.id)
      [] OTHER -> TRUE

\* The effect on the remote store of c's operation completing.
RemoteEffect(st, c) ==
    CASE c.kind = "create" -> addDoc(st, c.arg.note)
      [] c.kind = "update" -> updateDoc(st, c.arg.id, c.arg.note)
      [] c.kind = "miss" -> updateMissCount(st, c.arg.id, c.arg.miss)
      [] c.kind = "delete" -> deleteDoc(st, c.arg.id)
      [] OTHER -> st

----------------------------------------------------------------------------
(* Settlement of a pending withRetry invocation *)

\* the code after `await withRetry(...)` of the caller; user is the identity
\* signInWithPopup signed in, delivered to the onAuthStateChanged callback
resume_then(st, c, user, r) ==
    CASE c.kind = "login" -> onAuthStateChanged(st, user, r)
      [] c.kind = "logout" -> handleLogout_then(onAuthStateChanged(st, NoUser, r), r)
      [] c.kind = "list" -> renderListPage_then(st, getDocs(st, c.arg.uid))
      [] c.kind = "create" ->
            handleRegister_then(addDoc(st, c.arg.note), c, st.nextDocId)
      [] c.kind = "update" -> handleEdit_then(RemoteEffect(st, c), c)
      [] c.kind = "delete" -> handleDelete_then(RemoteEffect(st, c), c)
      [] c.kind = "miss" -> handleMissMark_then(RemoteEffect(st, c), c)

\* the catch block of the caller
resume_catch(st, c) ==
    CASE c.kind = "login" -> handleGoogleLogin_catch(st)
      [] c.kind = "logout" -> handleLogout_catch(st)
      [] c.kind = "list" -> renderListPage_catch(st)
      [] c.kind = "create" -> handleRegister_catch(st)
      [] c.kind = "update" -> handleEdit_catch(st)
      [] c.kind = "delete" -> handleDelete_catch(st)
      [] c.kind = "miss" -> handleMissMark_catch(st, c)

\* calls without its i-th element
Without(cs, i) == SubSeq(cs, 1, i - 1) \o SubSeq(cs, i + 1, Len(cs))

\* the operation of a timed-out attempt, as the remote side sees it
OrphanOf(c) == [kind |-> c.kind, arg |-> [c.arg EXCEPT !.btn = FALSE]]

\* fetchWithTimeout rejected or threw: withRetry's catch, then the caller
fetchRejected(st, c, error) ==
    LET r == withRetry_catch(st, c, error)
    IN  IF r.thrown = "none" THEN await(r.st, r.call)
        ELSE resume_catch(settled(r.st, r.call, r.thrown), r.call)

----------------------------------------------------------------------------
(* Actions *)
\* a settlement taken whatever the number of steps so far
Settle(st) == Len(st.calls) <= MaxCalls /\ Becomes(st)

\* a step within the bound on steps
Do(st) == steps < budget /\ Settle(st)
DoEvent(st) == Do(st)

Titles == {TitleA, TitleB}

FormInputs ==
    {Input(t, TextQ, TextA, <<>>) : t \in Titles \cup {<<Blank, "A", Blank>>}}
    \cup {Input(<<Blank>>, TextQ, TextA, <<>>),
          Input(TitleB, <<>>, TextA, <<>>),
          Input(TitleA, TextQ, <<Blank>>, <<>>),
          Input(Str(TITLE_MAX_LENGTH + 1), TextQ, TextA, <<>>),
          Input(TitleA, Str(CONTENT_MAX_LENGTH + 1), TextA, <<>>),
          Input(TitleB, TextQ, Str(CONTENT_MAX_LENGTH + 1), <<>>),
          Input(TitleA, TextQ, TextA, Str(CONTENT_MAX_LENGTH + 1)),
          Input(Str(TITLE_MAX_LENGTH + 1), <<>>, TextA, <<>>),
          Input(Str(TITLE_MAX_LENGTH + 1), TextQ, TextA, Str(CONTENT_MAX_LENGTH + 1)),
          Input(<<>>, Str(CONTENT_MAX_LENGTH + 1), TextA, <<>>),
          Input(Str(TITLE_MAX_LENGTH), Str(CONTENT_MAX_LENGTH + 1), TextA, <<>>),
          Input(TitleA, TextQ, TextA, Str(CONTENT_MAX_LENGTH))}

\* The operation of pending call i resolves before the timer fires.
OpSucceed ==
    \E i \in 1..Len(calls), user \in Users, r \in RandomPick(St) :
        LET c == calls[i]
            s1 == [Begin("OpSucceed") EXCEPT !.calls = Without(@, i)]
        IN  /\ CanSucceed(St, c)
            /\ c.kind # "login" => user = CHOOSE u \in Users : TRUE
            /\ Do(resume_then(settled(s1, c, "ok"), c, user, r))

\* The operation of pending call i rejects before the timer fires.
OpFail ==
    \E i \in 1..Len(calls) :
        LET s1 == [Begin("OpFail") EXCEPT !.calls = Without(@, i)]
        IN  Do(fetchRejected(s1, calls[i], "failure"))

\* a timer that never fires
TimerNever(s0) == FALSE

\* fetchWithTimeout's timer of pending call i fires first; its operation goes
\* on running (keep) or never completes.
TimerFires(s0) ==
    \E i \in 1..Len(calls), keep \in BOOLEAN :
        LET c == [calls[i] EXCEPT !.timeouts = @ + 1]
            canKeep == /\ c.kind # "list"
                       /\ Cardinality(orphans) < MaxOrphans
            s1 == [s0 EXCEPT
                      !.calls = Without(@, i),
                      !.orphans = IF keep THEN @ \cup {OrphanOf(c)} ELSE @]
        IN  /\ keep => canKeep
            /\ Settle(fetchRejected(s1, c, "timeout"))

Timeout == steps < budget /\ TimerFires(Begin("Timeout"))

\* A timer fires after the last of the steps counted.
LateTimeout ==
    /\ steps >= budget
    /\ TimerFires([Begin("Timeout") EXCEPT !.steps = steps])

\* An operation whose timeout fired completes on the remote side.
OrphanCompletes ==
    \E o \in orphans, user \in Users, r \in RandomPick(St) :
        LET s1 == [Begin("OrphanCompletes") EXCEPT !.orphans = @ \ {o}]
        IN  /\ CanSucceed(St, o)
            /\ o.kind # "login" => user = CHOOSE u \in Users : TRUE
            /\ Do(CASE o.kind = "login" -> onAuthStateChanged(s1, user, r)
                    [] o.kind = "logout" -> onAuthStateChanged(s1, NoUser, r)
                    [] OTHER -> RemoteEffect(s1, o))

\* The auth state changes outside this page: the persisted session at load,
\* a sign-in or sign-out in another tab.
AuthEvent ==
    \E user \in Users \cup {NoUser}, r \in RandomPick(St) :
        DoEvent(onAuthStateChanged(Event("AuthEvent"), user, r))

GoogleLogin ==
    /\ rendered = "login"
    /\ DoEvent(handleGoogleLogin(Event("GoogleLogin")))

Logout ==
    /\ rendered = "list"
    /\ DoEvent(handleLogout(Event("Logout")))

\* the sync button
Sync ==
    /\ rendered = "list"
    /\ DoEvent(renderListPage(Event("Sync")))

\* the buttons that call navigateTo
Navigate ==
    \E page \in {"list", "random"}, r \in RandomPick(St) :
        /\ \/ page = "random" /\ rendered = "list"
           \/ page = "list" /\ rendered \in {"random_empty", "random_complete", "problem"}
        /\ DoEvent(navigateTo(Event("Navigate"), page, r))

\* the browser's back and forward buttons; the session history holds entries
\* of any page, those of earlier loads of the document included
PopState ==
    \E page \in Pages, r \in RandomPick(St) :
        DoEvent(popstate(Event("PopState"), page, r))

\* the next-problem button
NextProblem ==
    \E r \in RandomPick(St) :
        /\ rendered = "problem"
        /\ DoEvent(renderRandomPage(Event("NextProblem"), r))

MissMark ==
    /\ rendered = "problem"
    /\ ~missBtnDisabled
    /\ problemNote.MissCount < MaxMiss
    /\ DoEvent(handleMissMark(Event("MissMark"), problemNote))

OpenRegisterModal ==
    /\ rendered = "list"
    /\ ~isModalOpen
    /\ DoEvent(openRegisterModal(Event("OpenRegisterModal")))

OpenEditModal ==
    \E i \in 1..Len(notesData) :
        /\ rendered = "list"
        /\ ~isModalOpen
        /\ DoEvent(openEditModal(Event("OpenEditModal"), notesData[i]))

OpenDetailModal ==
    \E i \in 1..Len(notesData) :
        /\ rendered = "list"
        /\ ~isModalOpen
        /\ DoEvent(openDetailModal(Event("OpenDetailModal"), notesData[i]))

DeleteMode ==
    /\ modalContent.kind = "edit"
    /\ DoEvent(deleteMode(Event("DeleteMode"), modalContent))

\* cancel, close button, overlay click, Escape
CloseModal ==
    /\ isModalOpen
    /\ DoEvent(closeModal(Event("CloseModal")))

\* the register form submitted, by the button or by Enter
Register ==
    \E in \in FormInputs, key \in BOOLEAN :
        /\ modalContent.kind = "register"
        /\ DoEvent(submit(
              [Event("Register") EXCEPT !.last.submitted = in], key, in, <<>>))

\* the edit form submitted, by the button or by Enter
Edit ==
    \E in \in FormInputs, key \in BOOLEAN :
        /\ modalContent.kind = "edit"
        /\ DoEvent(submit(
              [Event("Edit") EXCEPT !.last.submitted = in], key, in, <<>>))

\* the delete form submitted, by the button or by Enter
Delete ==
    \E confirm \in Titles \cup {<<Blank, "A">>}, key \in BOOLEAN :
        /\ modalContent.kind = "delete"
        /\ DoEvent(submit(
              [Event("Delete") EXCEPT !.last.confirm = confirm], key,
              Input(<<>>, <<>>, <<>>, <<>>), confirm))

\* Something else writes the storage key: a value JSON.parse rejects.
CorruptStorage ==
    /\ storage # Corrupt
    /\ DoEvent([Event("CorruptStorage") EXCEPT !.storage = Corrupt,
                                                !.saved = NoSaved])

----------------------------------------------------------------------------
\* A note of u1 that an earlier session stored in the remote store.
StoredNote == Note(1, TitleA, TextQ, TextA, <<>>, 0, 0, "u1")

\* init(): showLoading, initRouter, renderPage with currentUser null (a hash
\* of list or random makes renderPage navigate to login).  The remote store
\* and localStorage hold what earlier sessions left.
Init ==
    /\ currentUser = NoUser
    /\ notesData = <<>>
    /\ currentPage = "login"
    /\ isModalOpen = FALSE
    /\ retryBlocked = FALSE
    /\ usedProblemIds = {}
    /\ currentProblemId = 0
    /\ missMarkUsed = FALSE
    /\ rendered = "login"
    /\ loading = TRUE
    /\ modalContent = NoModal
    /\ problemNote = NoProblem
    /\ missBtnDisabled = FALSE
    /\ keydown = <<>>
    /\ \/ storage = Absent /\ saved = NoSaved
       \/ /\ storage = [kind |-> "json", text |-> JSONstringify(<<StoredNote>>)]
          /\ saved = [valid |-> TRUE, notes |-> <<StoredNote>>]
    /\ firestore = {StoredNote}
    /\ nextDocId = 2
    /\ calls = <<>>
    /\ orphans = {}
    /\ steps = 0
    /\ budget = MaxSteps
    /\ applied = [id \in 1..MaxDocs |-> 0]
    /\ lastCreated = NoCreated
    /\ last = NoLast

\* The program state after u1 signed in and the list was loaded.
Loaded ==
    /\ currentUser = "u1"
    /\ notesData = <<StoredNote>>
    /\ currentPage = "list"
    /\ isModalOpen = FALSE
    /\ retryBlocked = FALSE
    /\ usedProblemIds = {}
    /\ currentProblemId = 0
    /\ missMarkUsed = FALSE
    /\ rendered = "list"
    /\ loading = FALSE
    /\ modalContent = NoModal
    /\ problemNote = NoProblem
    /\ missBtnDisabled = FALSE
    /\ keydown = <<>>
    /\ storage = [kind |-> "json", text |-> JSONstringify(<<StoredNote>>)]
    /\ firestore = {StoredNote}
    /\ nextDocId = 2
    /\ calls = <<>>
    /\ orphans = {}

\* Loaded as the start of a run: Init, the sign-in event and the list's success
InitLoaded ==
    /\ Loaded
    /\ budget = MaxSteps
    /\ steps = 0
    /\ saved = [valid |-> TRUE, notes |-> <<StoredNote>>]
    /\ applied = [id \in 1..MaxDocs |-> 0]
    /\ lastCreated = NoCreated
    /\ last = NoLast

Next ==
    \/ OpSucceed
    \/ OpFail
    \/ Timeout
    \/ OrphanCompletes
    \/ AuthEvent
    \/ GoogleLogin
    \/ Logout
    \/ Sync
    \/ Navigate
    \/ PopState
    \/ NextProblem
    \/ MissMark
    \/ OpenRegisterModal
    \/ OpenEditModal
    \/ OpenDetailModal
    \/ DeleteMode
    \/ CloseModal
    \/ Register
    \/ Edit
    \/ Delete
    \/ CorruptStorage

Spec == Init /\ [][Next]_vars

\* Runs from the loaded list on
SpecLoaded == InitLoaded /\ [][Next]_vars

\* Runs of MaxFairSteps steps from the loaded list on where the timers set by
\* fetchWithTimeout fire, also after the last of these steps: the event loop
\* runs every setTimeout callback while the page is open.
InitFair ==
    /\ Loaded
    /\ budget = MaxFairSteps
    /\ steps = 0
    /\ saved = [valid |-> TRUE, notes |-> <<StoredNote>>]
    /\ applied = [id \in 1..MaxDocs |-> 0]
    /\ lastCreated = NoCreated
    /\ last = NoLast

\* Runs on the random page, from the first problem displayed on: miss marks,
\* next problem, auth events and the settlement of the operations.
Drilling ==
    /\ currentUser = "u1"
    /\ notesData = <<StoredNote>>
    /\ currentPage = "random"
    /\ isModalOpen = FALSE
    /\ retryBlocked = FALSE
    /\ usedProblemIds = {StoredNote.id}
    /\ currentProblemId = StoredNote.id
    /\ missMarkUsed = FALSE
    /\ rendered = "problem"
    /\ loading = FALSE
    /\ modalContent = NoModal
    /\ problemNote = [id |-> StoredNote.id, MissCount |-> StoredNote.MissCount]
    /\ missBtnDisabled = FALSE
    /\ keydown = <<>>
    /\ storage = [kind |-> "json", text |-> JSONstringify(<<StoredNote>>)]
    /\ firestore = {StoredNote}
    /\ nextDocId = 2
    /\ calls = <<>>
    /\ orphans = {}

InitDrill ==
    /\ Drilling
    /\ budget = MaxDrillSteps
    /\ steps = 0
    /\ saved = [valid |-> TRUE, notes |-> <<StoredNote>>]
    /\ applied = [id \in 1..MaxDocs |-> 0]
    /\ lastCreated = NoCreated
    /\ last = NoLast

DrillNext ==
    \/ MissMark
    \/ NextProblem
    \/ AuthEvent
    \/ OpSucceed
    \/ OpFail
    \/ Timeout
    \/ OrphanCompletes

SpecDrill == InitDrill /\ [][DrillNext]_vars

\* Runs with the modals, from the loaded list of two notes on: the modals
\* opened and closed, their forms submitted, and the settlement of the
\* operations.
OtherNote == Note(2, TitleB, TextQ, TextA, <<>>, 0, 0, "u1")

TwoLoaded ==
    /\ currentUser = "u1"
    /\ notesData = <<StoredNote, OtherNote>>
    /\ currentPage = "list"
    /\ isModalOpen = FALSE
    /\ retryBlocked = FALSE
    /\ usedProblemIds = {}
    /\ currentProblemId = 0
    /\ missMarkUsed = FALSE
    /\ rendered = "list"
    /\ loading = FALSE
    /\ modalContent = NoModal
    /\ problemNote = NoProblem
    /\ missBtnDisabled = FALSE
    /\ keydown = <<>>
    /\ storage = [kind |-> "json", text |-> JSONstringify(<<StoredNote, OtherNote>>)]
    /\ firestore = {StoredNote, OtherNote}
    /\ nextDocId = 3
    /\ calls = <<>>
    /\ orphans = {}

InitModal ==
    /\ TwoLoaded
    /\ budget = MaxModalSteps
    /\ steps = 0
    /\ saved = [valid |-> TRUE, notes |-> <<StoredNote, OtherNote>>]
    /\ applied = [id \in 1..MaxDocs |-> 0]
    /\ lastCreated = NoCreated
    /\ last = NoLast

ModalNext ==
    \/ OpenRegisterModal
    \/ OpenEditModal
    \/ OpenDetailModal
    \/ DeleteMode
    \/ CloseModal
    \/ Register
    \/ Edit
    \/ Delete
    \/ OpSucceed
    \/ OpFail
    \/ Timeout

SpecModal == InitModal /\ [][ModalNext]_vars

\* Runs through the random drill, from the loaded list of two notes on:
\* navigation, next problem, auth events, logout and the settlement of the
\* operations.
InitCycle ==
    /\ TwoLoaded
    /\ budget = MaxCycleSteps
    /\ steps = 0
    /\ saved = [valid |-> TRUE, notes |-> <<StoredNote, OtherNote>>]
    /\ applied = [id \in 1..MaxDocs |-> 0]
    /\ lastCreated = NoCreated
    /\ last = NoLast

CycleNext ==
    \/ Navigate
    \/ NextProblem
    \/ PopState
    \/ AuthEvent
    \/ Logout
    \/ Sync
    \/ OpSucceed
    \/ OpFail
    \/ Timeout

SpecCycle == InitCycle /\ [][CycleNext]_vars

FairNext == Next \/ LateTimeout
FairSpec == InitFair /\ [][FairNext]_vars /\ WF_vars(Timeout \/ LateTimeout)

----------------------------------------------------------------------------
(* Properties of the remote operation executor (withRetry) *)

\* C1: a withRetry invocation made while retryBlocked is set fails in the
\* step that makes it with 'Retry blocked' and E011, whatever operation it
\* wraps, and never calls that operation: no such invocation is left
\* pending, and the one that settled had called operation() zero times.
C1_BlockedFailsAtOnce ==
    /\ \A i \in 1..Len(calls) : ~calls[i].entryBlocked
    /\ last.done.call.entryBlocked =>
          /\ last.done.outcome = "blocked"
          /\ last.done.call.invoked = 0
          /\ last.invoked = 0
          /\ "E011" \in last.shown

C1_Witness ==
    /\ last.done.call.entryBlocked
    /\ last.done.call.kind = "delete"
    /\ last.done.outcome = "blocked"

\* C2 as stated: a withRetry invocation all of whose attempts timed out
\* called operation() exactly 3 times, showed E010 exactly twice, set
\* retryBlocked and threw the timeout.
C2_AlwaysThreeAttempts ==
    (last.done.call.invoked >= 1 /\ last.done.call.timeouts = last.done.call.invoked)
        => /\ last.done.call.invoked = MAX_RETRY
           /\ last.done.call.retrying = MAX_RETRY - 1
           /\ last.done.outcome = "timeout"
           /\ retryBlocked

\* C2: a withRetry invocation all of whose attempts timed out either called
\* operation() exactly 3 times, showed E010 exactly twice, set retryBlocked
\* and threw the timeout, or found retryBlocked set as one of its retries
\* began and threw 'Retry blocked' after fewer than 3 calls of operation(),
\* one E010 for each.
C2_ThreeAttemptsUnlessBlocked ==
    (last.done.call.invoked >= 1 /\ last.done.call.timeouts = last.done.call.invoked)
        => \/ /\ last.done.call.invoked = MAX_RETRY
              /\ last.done.call.retrying = MAX_RETRY - 1
              /\ last.done.outcome = "timeout"
              /\ "E011" \in last.shown
              /\ retryBlocked
           \/ /\ last.done.outcome = "blocked"
              /\ last.done.call.invoked < MAX_RETRY
              /\ last.done.call.retrying = last.done.call.invoked
              /\ last.prevBlocked
              /\ retryBlocked

C2_Witness ==
    /\ last.done.outcome = "timeout"
    /\ last.done.call.invoked = MAX_RETRY
    /\ last.done.call.retrying = MAX_RETRY - 1
    /\ ~last.prevBlocked
    /\ retryBlocked

\* C3: when an attempt rejects with an error other than the timeout, the
\* invocation settles in that step with that error: operation() is not
\* called again, no E010 is shown for it, and the caller's catch block runs.
C3_FailureNotRetried ==
    last.act = "OpFail" =>
        LET c == last.done.call
            code == CASE c.kind = "login" -> {"E001"}
                      [] c.kind = "logout" -> {"E002"}
                      [] c.kind = "create" -> {"E004"}
                      [] c.kind = "update" -> {"E005"}
                      [] c.kind = "delete" -> {"E006"}
                      [] c.kind = "miss" -> {"E005"}
                      [] OTHER -> {}
        IN  /\ last.done.outcome = "failure"
            /\ c.invoked = c.timeouts + 1
            /\ c.retrying = c.timeouts
            /\ last.invoked = 0
            /\ "E010" \notin last.shown
            /\ code \subseteq last.shown

C3_Witness ==
    /\ last.act = "OpFail"
    /\ last.done.outcome = "failure"
    /\ last.done.call.timeouts = 1
    /\ last.done.call.kind = "create"

\* C4 as stated: retryBlocked becomes set only in a step where an attempt
\* timed out with retryCount = MAX_RETRY - 1; a step where an attempt
\* rejected with another error leaves retryBlocked as it was.
C4_FlagOnlyOnLastTimeout ==
    /\ (~last.prevBlocked /\ retryBlocked) =>
          /\ last.act = "Timeout"
          /\ last.done.outcome = "timeout"
          /\ last.done.call.retryCount = MAX_RETRY - 1
    /\ last.act = "OpFail" => retryBlocked = last.prevBlocked

\* C5: a step in which the onAuthStateChanged callback receives a signed-in
\* user ends with retryBlocked cleared.
C5_SignInClearsFlag ==
    last.authEvent \in Users => ~retryBlocked

C5_Witness ==
    /\ last.authEvent \in Users
    /\ last.prevBlocked
    /\ ~retryBlocked

\* C6: retryBlocked goes from set to cleared only in a step in which the
\* onAuthStateChanged callback receives a signed-in user.
C6_OnlySignInClearsFlag ==
    (last.prevBlocked /\ ~retryBlocked) => last.authEvent \in Users

C6_Witness ==
    /\ last.prevBlocked
    /\ ~retryBlocked
    /\ last.act = "OpSucceed"
    /\ last.done.call.kind = "login"

\* C7: every withRetry invocation settles, also when its operation never
\* does (whenever invocations are pending, a state with none pending
\* follows), and no invocation calls operation() more than MAX_RETRY times,
\* whatever other invocations run meanwhile.
C7_EveryCallSettles ==
    /\ [](/\ \A i \in 1..Len(calls) : calls[i].invoked <= MAX_RETRY
          /\ last.done.call.invoked <= MAX_RETRY)
    /\ (calls # <<>>) ~> (calls = <<>>)

C7_Witness ==
    /\ calls = <<>>
    /\ orphans # {}
    /\ steps = budget
    /\ last.done.outcome = "timeout"
    /\ last.done.call.invoked = MAX_RETRY

----------------------------------------------------------------------------
(* Properties of the local mirror and of the list fallback *)

\* C8: when the list operation fails, for whatever reason, while
\* localStorage holds what saveToLocalStorage last wrote from a collection
\* C, notesData becomes exactly C and localStorage still holds C.
C8_FallbackRestoresSaved ==
    (/\ last.done.call.kind = "list"
     /\ last.done.outcome \in {"failure", "timeout", "blocked", "typeerror"}
     /\ saved.valid)
        => /\ notesData = saved.notes
           /\ storage = [kind |-> "json", text |-> JSONstringify(saved.notes)]
           /\ getFromLocalStorage(St) = saved.notes

C8_Witness ==
    /\ last.done.call.kind = "list"
    /\ last.done.outcome = "timeout"
    /\ saved.valid
    /\ saved.notes # <<>>
    /\ notesData = saved.notes
    /\ last.act = "Timeout"
    /\ steps = 4

\* C9 as stated: when the list operation fails while localStorage holds
\* nothing or a value that does not parse, the list completes with notesData
\* empty: the overlay is hidden and the list is rendered.
C9_CorruptMirrorGivesEmpty ==
    (/\ last.done.call.kind = "list"
     /\ last.done.outcome \in {"failure", "timeout", "blocked", "typeerror"}
     /\ storage.kind \in {"absent", "corrupt"})
        => /\ notesData = <<>>
           /\ ~loading
           /\ rendered = "list"

----------------------------------------------------------------------------
(* Properties of the note repository *)

\* handleRegister's conditions on the question, the answer and the explanation
ContentAccepted(in) ==
    /\ trim(in.question) # <<>>
    /\ trim(in.answer) # <<>>
    /\ Len(trim(in.question)) <= CONTENT_MAX_LENGTH
    /\ Len(trim(in.answer)) <= CONTENT_MAX_LENGTH
    /\ Len(trim(in.explain)) <= CONTENT_MAX_LENGTH

\* C10 as stated: a create submitted with the title of the note the latest
\* successful create of the same user appended (and content handleRegister
\* accepts) shows E008, calls no operation, and notesData holds exactly one
\* note of that title.
C10_ExactlyOneAfterDuplicate ==
    (/\ last.act = "Register"
     /\ lastCreated.Title # <<>>
     /\ trim(last.submitted.title) = lastCreated.Title
     /\ ContentAccepted(last.submitted)
     /\ lastCreated.uid = currentUser)
        => /\ "E008" \in last.shown
           /\ last.invoked = 0
           /\ Cardinality({i \in 1..Len(notesData) :
                             notesData[i].Title = lastCreated.Title}) = 1

\* C10: a create submitted with the title of the note the latest successful
\* create of the same user appended (and content handleRegister accepts)
\* shows E008, calls no operation and
\* leaves notesData, the pending invocations and the remote store as they
\* were; notesData holds exactly one note of that title when it held none
\* as that create's insert resolved.
C10_DuplicateRefused ==
    [][(/\ last'.act = "Register"
        /\ lastCreated'.Title # <<>>
        /\ trim(last'.submitted.title) = lastCreated'.Title
        /\ ContentAccepted(last'.submitted)
        /\ lastCreated'.uid = currentUser)
          => /\ "E008" \in last'.shown
             /\ last'.invoked = 0
             /\ calls' = calls
             /\ firestore' = firestore
             /\ notesData' = notesData
             /\ lastCreated'.before = 0 =>
                   Cardinality({i \in 1..Len(notesData') :
                       notesData'[i].Title = lastCreated'.Title}) = 1]_vars

C10_Witness ==
    /\ last.act = "Register"
    /\ lastCreated.Title = TitleB
    /\ last.submitted.title = TitleB
    /\ ContentAccepted(last.submitted)
    /\ lastCreated.uid = currentUser
    /\ lastCreated.before = 0
    /\ "E008" \in last.shown

----------------------------------------------------------------------------
(* Properties of validation *)

\* the validation rules a create or an update of note self (0 for a create)
\* breaks, given the notes in memory
Violates(in, notes, self) ==
    \/ trim(in.title) = <<>>
    \/ trim(in.question) = <<>>
    \/ trim(in.answer) = <<>>
    \/ Len(trim(in.title)) > TITLE_MAX_LENGTH
    \/ Len(trim(in.question)) > CONTENT_MAX_LENGTH
    \/ Len(trim(in.answer)) > CONTENT_MAX_LENGTH
    \/ Len(trim(in.explain)) > CONTENT_MAX_LENGTH
    \/ \E i \in 1..Len(notes) : notes[i].Title = trim(in.title) /\ notes[i].id # self

\* C11 as stated: a create or an update whose trimmed input breaks a validation rule
\* calls no operation and leaves notesData, localStorage, the remote store
\* and the pending invocations as they were.
C11_InvalidInputChangesNothing ==
    [][(/\ last'.act \in {"Register", "Edit"}
        /\ Violates(last'.submitted, notesData,
                    IF last'.act = "Edit" THEN modalContent.id ELSE 0))
          => /\ last'.invoked = 0
             /\ calls' = calls
             /\ orphans' = orphans
             /\ firestore' = firestore
             /\ notesData' = notesData
             /\ storage' = storage]_vars

C11_Witness ==
    /\ last.act = "Edit"
    /\ "E008" \in last.shown
    /\ last.invoked = 0
    /\ Len(notesData) = 2

----------------------------------------------------------------------------
(* Properties of delete *)

\* C12 as stated: a delete whose trimmed confirmation differs from the title of the
\* note the modal was opened for shows E009, calls no operation and leaves
\* notesData, localStorage and the remote store as they were; a delete whose
\* confirmation equals it calls deleteDoc, and when that resolves the note
\* of that id, and no other, is gone from notesData and from localStorage.
C12_DeleteNeedsConfirmation ==
    [][/\ (last'.act = "Delete" /\ trim(last'.confirm) # modalContent.Title)
            => /\ "E009" \in last'.shown
               /\ last'.invoked = 0
               /\ calls' = calls
               /\ firestore' = firestore
               /\ notesData' = notesData
               /\ storage' = storage
       /\ (last'.act = "Delete" /\ trim(last'.confirm) = modalContent.Title)
            => \/ last'.invoked >= 1
               \/ last'.done.outcome = "blocked"
       /\ (last'.act = "OpSucceed" /\ last'.done.call.kind = "delete")
            => /\ \A i \in 1..Len(notesData') :
                      notesData'[i].id # last'.done.call.arg.id
               /\ notesData' = filterOut(notesData, last'.done.call.arg.id)
               /\ storage'.kind = "json"
               /\ JSONparse(storage'.text) = notesData'
               /\ \A d \in firestore' : d.id # last'.done.call.arg.id]_vars

C12_Witness ==
    /\ last.act = "OpSucceed"
    /\ last.done.call.kind = "delete"
    /\ last.done.call.arg.id = 1
    /\ Len(notesData) = 1
    /\ notesData[1].Title = TitleB

----------------------------------------------------------------------------
(* Properties of the miss mark *)

\* C13 as stated: handleMissMark with missMarkUsed set does nothing, every
\* display of a problem clears missMarkUsed, and the miss marks applied to a
\* note add up: when a miss mark's updateDoc has resolved and handleMissMark
\* has written notesData, the MissCount of the note (0 at creation) is the
\* number of miss marks applied to it.
C13_MissesAddUp ==
    /\ (last.act = "MissMark" /\ last.invoked = 1) => missMarkUsed
    /\ (last.act = "NextProblem" /\ rendered = "problem") => ~missMarkUsed
    /\ (last.act = "OpSucceed" /\ last.done.call.kind = "miss")
          => \A i \in 1..Len(notesData) :
                notesData[i].id = last.done.call.arg.id
                  => notesData[i].MissCount = applied[notesData[i].id]

----------------------------------------------------------------------------
(* Properties of the list *)

\* C14: when the list of the same user resolves while notesData and the
\* remote store are as a resolved create left them, notesData holds the
\* note that create appended, with the id addDoc assigned and all its other
\* fields, exactly once.
C14_CreatedNoteListedOnce ==
    [][(/\ last'.act = "OpSucceed"
        /\ last'.done.call.kind = "list"
        /\ last'.done.call.arg.uid = lastCreated.uid
        /\ lastCreated.Title # <<>>
        /\ firestore = lastCreated.docs)
          => \E n \in Range(notesData) :
                /\ n.id = lastCreated.id
                /\ n.Title = lastCreated.Title
                /\ Cardinality({i \in 1..Len(notesData') : notesData'[i] = n}) = 1
                /\ Cardinality({i \in 1..Len(notesData') :
                                  notesData'[i].id = n.id}) = 1]_vars

C14_Witness ==
    /\ last.act = "OpSucceed"
    /\ last.done.call.kind = "list"
    /\ lastCreated.Title = TitleB
    /\ firestore = lastCreated.docs
    /\ \E i \in 1..Len(notesData) : notesData[i].id = lastCreated.id

----------------------------------------------------------------------------
(* Properties of failed operations *)

\* C15: the step that starts a create, an update, a delete or a miss mark,
\* every step in which one of their attempts times out or rejects, and the
\* step in which their withRetry invocation fails (rejection, last timeout,
\* retryBlocked) leave notesData and localStorage as they were; when the
\* invocation of a miss mark fails, missMarkUsed is cleared.
C15_FailureChangesNothing ==
    [][/\ last'.act \in {"Register", "Edit", "Delete", "MissMark"}
            => (notesData' = notesData /\ storage' = storage)
       /\ (last'.act \in {"Timeout", "OpFail"} /\ last'.done.call.kind # "list")
            => (notesData' = notesData /\ storage' = storage)
       /\ (/\ last'.done.call.kind \in {"create", "update", "delete", "miss"}
           /\ last'.done.outcome \in {"failure", "timeout", "blocked"})
            => /\ notesData' = notesData
               /\ storage' = storage
               /\ firestore' = firestore
               /\ last'.done.call.kind = "miss" => ~missMarkUsed']_vars

C15_Witness ==
    /\ last.done.call.kind = "miss"
    /\ last.done.outcome = "timeout"
    /\ last.done.call.invoked = MAX_RETRY
    /\ ~missMarkUsed
    /\ rendered = "problem"

----------------------------------------------------------------------------
(* Invariants of the collection *)

\* C16 as stated: no two notes of notesData have the same title.
C16_TitlesUnique ==
    \A i, j \in 1..Len(notesData) :
        notesData[i].Title = notesData[j].Title => i = j

\* C17 as stated: no step lowers the MissCount of a note that is in
\* notesData before and after it.
C17_MissCountNeverDecreases ==
    [][\A i \in 1..Len(notesData), j \in 1..Len(notesData') :
          notesData[i].id = notesData'[j].id
            => notesData'[j].MissCount >= notesData[i].MissCount]_vars

\* C18 as stated: while no user is signed in, localStorage holds no notes.
C18_MirrorEmptyWhenSignedOut ==
    currentUser = NoUser => storage.kind = "absent" \/ storage.text = <<>>

----------------------------------------------------------------------------
(* C19: a successful update changes only Title, Question, Answer and       *)
(* Explain of the note it targets, in memory and in the remote store: the  *)
(* note's id, Date, MissCount and uid, every other note and the number of  *)
(* notes stay as they were.  A successful miss mark changes only MissCount *)
(* of the note it targets.                                                 *)
SameButContent(n, m) ==
    /\ m.id = n.id
    /\ m.Date = n.Date
    /\ m.MissCount = n.MissCount
    /\ m.uid = n.uid

SameButMissCount(n, m) == m = [n EXCEPT !.MissCount = m.MissCount]

ChangesOnly(kind, n, m) ==
    IF kind = "update" THEN SameButContent(n, m) ELSE SameButMissCount(n, m)

\* C19: a step in which an update succeeds changes nothing but Title,
\* Question, Answer and Explain of its note, which become the submitted
\* values; a step in which a miss mark succeeds changes nothing but MissCount
\* of its note.
C19_UpdateChangesOnlyItsFields ==
    [][(last'.act = "OpSucceed" /\ last'.done.call.kind \in {"update", "miss"}) =>
        LET c == last'.done.call
        IN  /\ Len(notesData') = Len(notesData)
            /\ \A i \in 1..Len(notesData) :
                    IF notesData[i].id = c.arg.id
                    THEN ChangesOnly(c.kind, notesData[i], notesData'[i])
                    ELSE notesData'[i] = notesData[i]
            /\ Cardinality(firestore') = Cardinality(firestore)
            /\ \A d \in firestore :
                    IF d.id = c.arg.id
                    THEN \E e \in firestore' : ChangesOnly(c.kind, d, e)
                    ELSE d \in firestore'
            /\ c.kind = "update" =>
                    \A i \in 1..Len(notesData) :
                        notesData[i].id = c.arg.id =>
                            /\ notesData'[i].Title = c.arg.note.Title
                            /\ notesData'[i].Question = c.arg.note.Question
                            /\ notesData'[i].Answer = c.arg.note.Answer
                            /\ notesData'[i].Explain = c.arg.note.Explain]_vars

\* an update has succeeded and renamed the stored note, which keeps its owner
C19_Witness ==
    /\ last.act = "OpSucceed"
    /\ last.done.call.kind = "update"
    /\ last.done.call.arg.id = StoredNote.id
    /\ \E i \in 1..Len(notesData) :
            /\ notesData[i].id = StoredNote.id
            /\ notesData[i].Title = TitleB
            /\ notesData[i].uid = StoredNote.uid

----------------------------------------------------------------------------
(* Order of validation *)

ValidationCodes == {"E007", "E012", "E013", "E008"}

\* the first rule, in the order required field, title length, content
\* length, duplicate title, that the trimmed input breaks; self is the id of
\* the note being edited, 0 for a create
FirstFailing(in, notes, self) ==
    IF trim(in.title) = <<>> \/ trim(in.question) = <<>> \/ trim(in.answer) = <<>>
    THEN "E007"
    ELSE IF Len(trim(in.title)) > TITLE_MAX_LENGTH
    THEN "E012"
    ELSE IF \/ Len(trim(in.question)) > CONTENT_MAX_LENGTH
            \/ Len(trim(in.answer)) > CONTENT_MAX_LENGTH
            \/ Len(trim(in.explain)) > CONTENT_MAX_LENGTH
    THEN "E013"
    ELSE IF \E i \in 1..Len(notes) :
                notes[i].Title = trim(in.title) /\ notes[i].id # self
    THEN "E008"
    ELSE "none"

\* C20 as stated: a create or an update reports the first rule its input breaks, in
\* the order MissingRequiredField (E007), TitleTooLong (E012, more than 50
\* characters), ContentTooLong (E013, more than 999), DuplicateTitle (E008),
\* and nothing else; the duplicate check of an update leaves out the note
\* being edited, that of a create leaves out nothing; an input that breaks
\* no rule is reported no validation error.
C20_FirstBrokenRuleReported ==
    [][last'.act \in {"Register", "Edit"} =>
        LET f == FirstFailing(last'.submitted, notesData,
                              IF last'.act = "Edit" THEN modalContent.id ELSE 0)
        IN  IF f = "none"
            THEN last'.shown \cap ValidationCodes = {}
            ELSE last'.shown = {f}]_vars

\* an update whose title and explanation are both too long was refused for
\* its title
C20_Witness ==
    /\ last.act = "Edit"
    /\ Len(trim(last.submitted.title)) > TITLE_MAX_LENGTH
    /\ Len(trim(last.submitted.explain)) > CONTENT_MAX_LENGTH
    /\ last.shown = {"E012"}

----------------------------------------------------------------------------
(* The mirror after a success *)

\* the collection localStorage holds, as getFromLocalStorage would read it
Mirror(store) == IF store.kind = "json" THEN JSONparse(store.text) ELSE <<>>

DataKinds == {"list", "create", "update", "delete", "miss"}

TargetInMemory(c) == \E i \in 1..Len(notesData) : notesData[i].id = c.arg.id

----------------------------------------------------------------------------
(* Ownership of the notes in memory *)

\* C22 as stated: every note of notesData has the uid of the signed-in user,
\* and notesData is empty while no user is signed in.
C22_NotesOwnedBySignedInUser ==
    /\ \A i \in 1..Len(notesData) : notesData[i].uid = currentUser
    /\ currentUser = NoUser => notesData = <<>>

----------------------------------------------------------------------------
(* The keydown listeners of the modals *)

\* C23 as stated: a step that submits the edit modal opened for a note
\* starts update operations for that note's id only; when an update
\* succeeds, the notes of other ids stay as they were in notesData
\* and in the remote store.
C23_EditTouchesOnlyItsNote ==
    [][/\ last'.act = "Edit" =>
            \A i \in 1..Len(calls') :
                (i > Len(calls) \/ calls'[i] # calls[i]) =>
                    calls'[i].kind = "update" /\ calls'[i].arg.id = modalContent.id
       /\ (last'.act = "OpSucceed" /\ last'.done.call.kind = "update") =>
            /\ \A i \in 1..Len(notesData) :
                   notesData[i].id # last'.done.call.arg.id
                       => i <= Len(notesData') /\ notesData'[i] = notesData[i]
            /\ \A d \in firestore :
                   d.id # last'.done.call.arg.id => d \in firestore']_vars

\* C24 as stated: a step that submits the register modal runs handleRegister
\* once and calls the insert operation at most once.
C24_RegisterRunsOnce ==
    [][last'.act = "Register" => last'.started = 1 /\ last'.invoked <= 1]_vars

----------------------------------------------------------------------------
(* The loading overlay and the rendered page *)

\* C25 as stated: when a withRetry invocation has settled, with success or
\* with failure, and no other is pending, the loading overlay is hidden.
C25_OverlayHiddenAfterSettling ==
    (last.done.outcome # "none" /\ calls = <<>>) => ~loading

\* C26 as stated: while no user is signed in, the page rendered is the
\* login page.
C26_LoginPageWhenSignedOut ==
    currentUser = NoUser => rendered = "login"

----------------------------------------------------------------------------
(* The random drill *)

NoteIds(notes) == {notes[i].id : i \in 1..Len(notes)}

\* C27: usedProblemIds changes only by a note of notesData that was not in
\* it being presented (it is added, becomes currentProblemId and is the
\* problem rendered; with two or more unused notes it is not the one that
\* was displayed) or by the reset to empty, which happens when every note of
\* notesData has been presented (the complete page) or on logout; and a
\* problem is presented only so.
C27_NoRepeatWithinCycle ==
    [][/\ usedProblemIds' # usedProblemIds =>
            \/ /\ usedProblemIds' = {}
               /\ \/ /\ NoteIds(notesData) \subseteq usedProblemIds
                     /\ rendered' = "random_complete"
                  \/ last'.done.call.kind = "logout"
            \/ \E r \in NoteIds(notesData) \ usedProblemIds :
                  /\ usedProblemIds' = usedProblemIds \cup {r}
                  /\ currentProblemId' = r
                  /\ problemNote'.id = r
                  /\ rendered' = "problem"
                  /\ Cardinality(NoteIds(notesData) \ usedProblemIds) >= 2
                        => r # currentProblemId
       /\ (rendered' = "problem" /\ (problemNote' # problemNote \/ rendered # "problem"))
            => usedProblemIds' # usedProblemIds /\ usedProblemIds' # {}
       /\ (currentProblemId' # currentProblemId /\ currentProblemId' # 0)
            => currentProblemId' \notin usedProblemIds]_vars

\* a cycle has ended: both notes were presented, and the next-problem
\* button led to the complete page, which emptied usedProblemIds
C27_Witness ==
    /\ rendered = "random_complete"
    /\ Len(notesData) = 2
    /\ usedProblemIds = {}
    /\ currentProblemId # 0
    /\ last.act = "NextProblem"

====
